---- MODULE Spec2Model ----
(***************************************************************************)
(* State-machine model of UM.Settings.ContainerRegistry.ContainerRegistry  *)
(* (src/UM/Settings/ContainerRegistry.py): the provider list, the metadata *)
(* table, the container table, the query cache, the container objects the  *)
(* registry holds references to, and the backing files in storage.         *)
(***************************************************************************)
EXTENDS Integers, Sequences, FiniteSets, TLC

\* ------------------------------------------------------------------------
\* Bounds
\* ------------------------------------------------------------------------

\* Number of operations called on the registry after its construction
\* (each creates at most one container object).
MaxOps == 4

\* Number of operations SpecCache calls on a registry with a filled cache.
MaxCacheOps == 2

\* Number of operations SpecLoad calls on the registry.
MaxLoadOps == 4

\* Number of operations SpecSave calls on the registry.
MaxSaveOps == 4

\* Number of operations SpecNames calls on the registry.
MaxNameOps == 5

\* Operations in a behaviour of the id look-ups with a filled cache.
MaxIdOps == 4

\* Number of candidate names uniqueName is followed through.
MaxTries == 6

\* Number of steps of SpecSaveLock: operations on the registry, lock
\* acquisitions and releases, and file writes of saveAll.
MaxLockSteps == 8

\* Number of steps of SpecLoadLock: operations on the registry, calls of
\* load(), and the turns of its loop.
MaxLoadSteps == 7

\* Capacity of the query cache (1000 in the program, scaled down here).
MaxQueryCacheSize == 3

\* ------------------------------------------------------------------------
\* Values
\* ------------------------------------------------------------------------

NoValue == "<none>"

EmptyId == "empty"

Ids == {"a", "b"}

AllIds == Ids \cup {EmptyId}

\* Names passed to renameContainer.
NewNames == {"n1"}

BaseTypes == {"DefinitionContainer", "InstanceContainer", "ContainerStack"}

\* Classes of the containers handed to addContainer: the three base
\* variants and a ContainerInterface implementation derived from none of them.
AddClasses == BaseTypes \cup {"MockContainer"}

\* issubclass(cls, type)
IsSubclass(cls, type) ==
    \/ cls = type
    \/ cls = "_EmptyInstanceContainer" /\ type = "InstanceContainer"

\* hasattr(container, "metaDataChanged")
HasMetaDataChanged(cls) ==
    cls \in {"InstanceContainer", "ContainerStack", "_EmptyInstanceContainer"}

\* The ids of the containers SpecNames registers.
NameIds == {"Profile", "Profile #2", "profile"}

\* The characters of a string of the model, a word of letters taken as one.
Chars(s) ==
    CASE s = "" -> <<>>
      [] s = " Profile " -> <<" ", "Profile", " ">>
      [] s = "Profile #2" -> <<"Profile", " ", "#", "2">>
      [] s = "Profile #3" -> <<"Profile", " ", "#", "3">>
      [] s = "Profile #4" -> <<"Profile", " ", "#", "4">>
      [] s = "Profile #5" -> <<"Profile", " ", "#", "5">>
      [] s = "Profile #6" -> <<"Profile", " ", "#", "6">>
      [] s = "profile #2" -> <<"profile", " ", "#", "2">>
      [] s = "profile #3" -> <<"profile", " ", "#", "3">>
      [] s = "profile #4" -> <<"profile", " ", "#", "4">>
      [] s = "profile #5" -> <<"profile", " ", "#", "5">>
      [] s = "Profile#2" -> <<"Profile", "#", "2">>
      [] s = "Profile#2 #2" -> <<"Profile", "#", "2", " ", "#", "2">>
      [] s = "#2" -> <<"#", "2">>
      [] OTHER -> <<s>>

\* The strings of the model.
Strings ==
    {"", " Profile ", "Profile", "profile", "Profile #2", "Profile #3",
     "Profile #4", "Profile #5", "Profile #6", "profile #2", "profile #3",
     "profile #4", "profile #5", "Profile#2", "Profile#2 #2", "#2",
     "a", "b", "n1", EmptyId}

\* The string of the given characters.
Str(cs) ==
    IF \E s \in Strings : Chars(s) = cs
    THEN CHOOSE s \in Strings : Chars(s) = cs
    ELSE "<other>"

LowerChar(c) ==
    CASE c = "A" -> "a"
      [] c = "B" -> "b"
      [] c = "Profile" -> "profile"
      [] OTHER -> c

\* str.lower(), as the characters of the result.
Lower(s) == [i \in 1..Len(Chars(s)) |-> LowerChar(Chars(s)[i])]

\* Iteration order of the metadata table.
KeyOrder == <<"a", "b", EmptyId, "Profile", "Profile #2", "profile">>

\* A container object as the registry sees it: its class, its id, its name
\* (the id, until setName) and whether _onContainerMetaDataChanged is
\* connected to its metaDataChanged signal.
NewContainer(cls, id) ==
    [cls |-> cls, id |-> id, name |-> id, connected |-> FALSE]

\* A slot of the heap that holds no object.
FreeSlot == [cls |-> "<free>", id |-> "", name |-> "", connected |-> FALSE]

Live(h) == {o \in 1..Len(h) : h[o] # FreeSlot}

\* Where the next object is created.
NewRef(h) == CHOOSE o \in 1..Len(h) : h[o] = FreeSlot /\ \A n \in 1..(o - 1) : h[n] # FreeSlot

HasRoom(h) == \E o \in 1..Len(h) : h[o] = FreeSlot

\* ------------------------------------------------------------------------
\* Providers (external): id lists, metadata and containers they supply
\* ------------------------------------------------------------------------

Providers == {"p1", "p2"}

\* The provider plug-ins SpecLoad registers.
ProviderPlugins == Providers \cup {"p3", "p4"}

\* Whether the plug-in's "container_provider" metadata has a "priority" entry.
HasPriority(p) == p # "p3"

\* The "priority" entry of the plug-in's "container_provider" metadata.
PluginPriority(p) ==
    CASE p = "p1" -> 1
      [] p = "p2" -> 0
      [] OTHER -> 1

\* PluginRegistry metadata ["container_provider"].get("priority", 0)
Priority(p) == IF HasPriority(p) THEN PluginPriority(p) ELSE 0

\* provider.getAllIds()
getAllIds(p) ==
    CASE p = "p3" -> <<"a", "b">>
      [] p = "p4" -> <<"b">>
      [] p = "p5" -> <<"Profile", "Profile #2">>
      [] OTHER -> <<"a">>

\* Runtime variant of the container a provider supplies for an id.
ProvidedType(p, id) ==
    CASE p = "p1" -> "InstanceContainer"
      [] p = "p2" -> "ContainerStack"
      [] p = "p3" -> "DefinitionContainer"
      [] OTHER -> "InstanceContainer"

\* provider.loadMetadata(id): a metadata dictionary of its own (obj = 0).
loadMetadata(p, id) ==
    [obj |-> 0, id |-> id, name |-> id, container_type |-> ProvidedType(p, id)]

\* provider.loadContainer(id): a new container object.
loadContainer(p, id) == NewContainer(ProvidedType(p, id), id)

\* ------------------------------------------------------------------------
\* Storage
\* ------------------------------------------------------------------------

\* mime_type_map: the mimetype registered for exactly this class, or NoValue.
MimeTypeOf(cls) ==
    CASE cls = "DefinitionContainer" -> "definitioncontainer"
      [] cls = "InstanceContainer" -> "instancecontainer"
      [] cls = "ContainerStack" -> "containerstack"
      [] OTHER -> NoValue

File(rtype, id, mime) == [rtype |-> rtype, id |-> id, mime |-> mime]

\* The files in storage when the registry is constructed: a definition
\* container saved earlier.
InitialFiles == { File("DefinitionContainers", "a", "definitioncontainer") }

\* The registry instances (processes) that share the storage: 1 is the
\* registry of this model, 2 another instance.
Instances == {1, 2}

\* A registry instance that is not in saveAll.
Idle == [pc |-> "idle", todo |-> <<>>, written |-> 0]

\* A registry instance that is not in load(): todo are the provider and id
\* pairs its loop has still to visit, loaded counts its calls of
\* provider.loadContainer, ended tells how its last load() ended.
NotLoading == [pc |-> "idle", todo |-> <<>>, loaded |-> 0, ended |-> ""]

VARIABLES
    _providers,       \* sequence of providers, sorted by priority
    metadata,         \* id -> metadata entry
    _containers,      \* id -> container object (index into heap)
    _query_cache,     \* OrderedDict: sequence of [query, result], oldest first
    _resource_types,  \* sequence of resource types
    heap,             \* the container objects: sequence of records
    files,            \* backing files in the storage paths
    isDirty,          \* container object -> what its isDirty() returns
    serialize,        \* container object -> how its serialize() ends
    lock_holder,      \* the registry instance that holds the lock file, 0 for none
    saving,           \* registry instance -> progress of its saveAll
    cache_lock_holder, \* the registry instance that holds the cache lock file, 0 for none
    loading,          \* registry instance -> progress of its load()
    signals,          \* what the last operation emitted / connected / wrote, in order
    last,             \* the last operation, its arguments and its outcome
    nops              \* number of operations called so far

vars == <<_providers, metadata, _containers, _query_cache, _resource_types,
          heap, files, isDirty, serialize, lock_holder, saving,
          cache_lock_holder, loading, signals,
          last, nops>>

\* ------------------------------------------------------------------------
\* Metadata entries and queries
\* ------------------------------------------------------------------------

\* container.getMetaData(): the container's own dictionary, held by reference.
getMetaData(o) == [obj |-> o, id |-> "", name |-> "", container_type |-> ""]

\* The current contents of a metadata dictionary.
MetaView(h, e) ==
    IF e.obj = 0
    THEN [id |-> e.id, name |-> e.name, container_type |-> e.container_type]
    ELSE [id |-> h[e.obj].id, name |-> h[e.obj].name,
          container_type |-> h[e.obj].cls]

\* ContainerQuery(registry, ignore_case = ..., container_type = ..., **kwargs)
Query(type, ic, id, name) ==
    [container_type |-> type, ignore_case |-> ic, id |-> id, name |-> name]

IdQuery(id) == Query("None", FALSE, id, NoValue)

\* ContainerQuery.isIdOnly()
isIdOnly(q) ==
    /\ q.container_type = "None"
    /\ ~q.ignore_case
    /\ q.name = NoValue
    /\ q.id \notin {NoValue, "*"}

ValueMatches(pattern, value, ic) ==
    \/ pattern = NoValue
    \/ pattern = "*"
    \/ IF ic THEN Lower(pattern) = Lower(value) ELSE pattern = value

Matches(h, q, e) ==
    LET m == MetaView(h, e) IN
    /\ q.container_type = "None" \/ IsSubclass(m.container_type, q.container_type)
    /\ ValueMatches(q.id, m.id, q.ignore_case)
    /\ ValueMatches(q.name, m.name, q.ignore_case)

\* ContainerQuery.execute(): scan of the metadata table.
execute(h, md, q) ==
    LET keys == SelectSeq(KeyOrder, LAMBDA k : k \in DOMAIN md /\ Matches(h, q, md[k]))
    IN [i \in 1..Len(keys) |-> md[keys[i]]]

\* ------------------------------------------------------------------------
\* Dictionary and list helpers
\* ------------------------------------------------------------------------

\* d[k] = v
Put(d, k, v) == [x \in (DOMAIN d) \cup {k} |-> IF x = k THEN v ELSE d[x]]

\* del d[k]
Del(d, k) == [x \in (DOMAIN d) \ {k} |-> d[x]]

RemoveAt(s, i) == [j \in 1..(Len(s) - 1) |-> IF j < i THEN s[j] ELSE s[j + 1]]

\* Position of query q in the cache, 0 when it is not a key.
CacheIndex(cache, q) ==
    IF \E i \in 1..Len(cache) : cache[i].query = q
    THEN CHOOSE i \in 1..Len(cache) : cache[i].query = q
    ELSE 0

CacheKeys(cache) == {cache[i].query : i \in 1..Len(cache)}

RECURSIVE InsertBeforeEqual(_, _)
InsertBeforeEqual(s, x) ==
    IF s = <<>> THEN <<x>>
    ELSE IF Priority(s[1]) < Priority(x)
         THEN <<s[1]>> \o InsertBeforeEqual(Tail(s), x)
         ELSE <<x>> \o s

\* list.sort(key = priority) is stable: x goes behind every element whose
\* priority is not larger than its own.
RECURSIVE InsertByPriority(_, _)
InsertByPriority(s, x) ==
    IF s = <<>> THEN <<x>>
    ELSE IF Priority(s[1]) <= Priority(x)
         THEN <<s[1]>> \o InsertByPriority(Tail(s), x)
         ELSE <<x>> \o s

RECURSIVE SortByPriority(_)
SortByPriority(s) ==
    IF s = <<>> THEN <<>>
    ELSE InsertByPriority(SortByPriority(SubSeq(s, 1, Len(s) - 1)), s[Len(s)])

\* ------------------------------------------------------------------------
\* The registry state as one record, and the outcome of an operation
\* ------------------------------------------------------------------------

Cur ==
    [p |-> _providers, md |-> metadata, cs |-> _containers, qc |-> _query_cache,
     rt |-> _resource_types, heap |-> heap, files |-> files,
     dirty |-> isDirty, ser |-> serialize]

NoQuery == Query("None", FALSE, NoValue, NoValue)

\* The record of an operation: its name, the id and the container object it
\* was about, its other arguments, the query it asked, how it ended ("unknown": the id was not in
\* the container table; "noop": nothing to do; "done"; "KeyError": raised)
\* and what it returned.
Op(name) ==
    [op |-> name, cid |-> NoValue, obj |-> 0, newName |-> NoValue,
     newId |-> NoValue, query |-> NoQuery,
     status |-> "done", retMeta |-> <<>>, retObjs |-> <<>>,
     retName |-> NoValue, tries |-> 0]

Signal(kind, o, h) ==
    [kind |-> kind, obj |-> o, id |-> h[o].id, name |-> h[o].name]

Outcome(st, sigs, l) == [st |-> st, signals |-> sigs, last |-> l]

Apply(r) ==
    LET st == r.st IN
    /\ nops' = nops + 1
    /\ _providers' = st.p
    /\ metadata' = st.md
    /\ _containers' = st.cs
    /\ _query_cache' = st.qc
    /\ _resource_types' = st.rt
    /\ heap' = st.heap
    /\ files' = st.files
    /\ isDirty' = st.dirty
    /\ serialize' = st.ser
    /\ UNCHANGED <<lock_holder, saving, cache_lock_holder, loading>>
    /\ signals' = r.signals
    /\ last' = r.last

\* ------------------------------------------------------------------------
\* Queries
\* ------------------------------------------------------------------------

\* findContainersMetadata that stores the query by id like any other query.
findContainersMetadataStoringIds(st, q) ==
    IF isIdOnly(q)
    THEN LET ret == IF q.id \in DOMAIN st.md THEN <<st.md[q.id]>> ELSE <<>> IN
         [ret |-> ret,
          qc |-> Append(st.qc, [query |-> q, result |-> ret]),
          executed |-> FALSE, hit |-> FALSE]
    ELSE IF CacheIndex(st.qc, q) # 0
    THEN LET i == CacheIndex(st.qc, q) IN
         [ret |-> st.qc[i].result,
          qc |-> Append(RemoveAt(st.qc, i), st.qc[i]),
          executed |-> FALSE, hit |-> TRUE]
    ELSE [ret |-> execute(st.heap, st.md, q),
          qc |-> IF Len(st.qc) > MaxQueryCacheSize THEN Tail(st.qc) ELSE st.qc,
          executed |-> TRUE, hit |-> FALSE]

\* findContainersMetadata: the result, the cache afterwards, whether the
\* metadata table was scanned and whether the cache answered.
findContainersMetadata(st, q) ==
    IF isIdOnly(q)
    THEN [ret |-> IF q.id \in DOMAIN st.md THEN <<st.md[q.id]>> ELSE <<>>,
          qc |-> st.qc, executed |-> FALSE, hit |-> FALSE]
    ELSE IF CacheIndex(st.qc, q) # 0
    THEN LET i == CacheIndex(st.qc, q) IN
         [ret |-> st.qc[i].result,
          qc |-> Append(RemoveAt(st.qc, i), st.qc[i]),
          executed |-> FALSE, hit |-> TRUE]
    ELSE [ret |-> execute(st.heap, st.md, q),
          qc |-> IF Len(st.qc) > MaxQueryCacheSize THEN Tail(st.qc) ELSE st.qc,
          executed |-> TRUE, hit |-> FALSE]

findContainersSkipping(st, q) ==
    LET r == findContainersMetadata(st, q)
        known == SelectSeq(r.ret, LAMBDA e : MetaView(st.heap, e).id \in DOMAIN st.cs)
    IN [ret |-> [i \in 1..Len(known) |-> st.cs[MetaView(st.heap, known[i]).id]],
        raised |-> "",
        qc |-> r.qc, executed |-> r.executed, hit |-> r.hit]

\* findContainers: self._containers[result["id"]] for every metadata result;
\* a result whose id is no key of the container table raises KeyError.
findContainers(st, q) ==
    LET r == findContainersMetadata(st, q)
        idOf(i) == MetaView(st.heap, r.ret[i]).id
        missing == \E i \in 1..Len(r.ret) : idOf(i) \notin DOMAIN st.cs
    IN [ret |-> IF missing THEN <<>> ELSE [i \in 1..Len(r.ret) |-> st.cs[idOf(i)]],
        raised |-> IF missing THEN "KeyError" ELSE "",
        qc |-> r.qc, executed |-> r.executed, hit |-> r.hit]

\* ------------------------------------------------------------------------
\* Helpers of the mutating operations
\* ------------------------------------------------------------------------

\* _deleteFiles(container): for every registered resource type, remove the
\* files named after the container's id with a suffix of the mimetype
\* registered for exactly its class; nothing when no mimetype is registered.
_deleteFiles(st, o) ==
    LET mime == MimeTypeOf(st.heap[o].cls) IN
    IF mime = NoValue THEN st.files
    ELSE st.files \ {File(st.rt[i], st.heap[o].id, mime) : i \in 1..Len(st.rt)}

\* _clearQueryCache()
_clearQueryCache(qc) == <<>>

\* The base class _clearQueryCacheByContainer recognises, or NoValue.
BaseTypeOf(cls) ==
    IF IsSubclass(cls, "DefinitionContainer") THEN "DefinitionContainer"
    ELSE IF IsSubclass(cls, "InstanceContainer") THEN "InstanceContainer"
    ELSE IF IsSubclass(cls, "ContainerStack") THEN "ContainerStack"
    ELSE NoValue

_clearQueryCacheByContainerAll(qc, cls) == <<>>

\* _clearQueryCacheByContainer(container)
_clearQueryCacheByContainer(qc, cls) ==
    IF BaseTypeOf(cls) = NoValue
    THEN _clearQueryCache(qc)
    ELSE SelectSeq(qc, LAMBDA e :
            ~(\/ e.query.container_type = BaseTypeOf(cls)
              \/ e.query.container_type = "None"))

\* ------------------------------------------------------------------------
\* addContainer, removeContainer, renameContainer
\* ------------------------------------------------------------------------

\* addContainer(container), container being object o of st.heap.
addContainer(st, o) ==
    LET c == st.heap[o]
        f == findContainers(st, Query(c.cls, FALSE, c.id, NoValue))
        l == [Op("addContainer") EXCEPT !.cid = c.id, !.obj = o]
        st1 == [st EXCEPT !.qc = f.qc]
    IN
    IF f.raised # "" THEN Outcome(st1, <<>>, [l EXCEPT !.status = f.raised])
    ELSE IF f.ret # <<>> THEN Outcome(st1, <<>>, [l EXCEPT !.status = "noop"])
    ELSE
        LET sub == HasMetaDataChanged(c.cls)
            h2 == [st.heap EXCEPT ![o].connected = (@ \/ sub)]
            st2 == [st1 EXCEPT !.heap = h2,
                               !.cs = Put(@, c.id, o),
                               !.qc = _clearQueryCacheByContainer(@, c.cls)]
        IN Outcome(st2,
                   (IF sub THEN <<Signal("connect", o, h2)>> ELSE <<>>)
                       \o <<Signal("containerAdded", o, h2)>>,
                   l)

removeUnknownDeleting(st, id) ==
    Outcome([st EXCEPT !.files = {f \in @ : f.id # id}], <<>>,
            [Op("removeContainer") EXCEPT !.cid = id, !.status = "unknown"])

\* removeContainer(container_id), no container with that id is known.
removeUnknown(st, id) ==
    Outcome(st, <<>>, [Op("removeContainer") EXCEPT !.cid = id,
                                                    !.status = "unknown"])

\* removeContainer(container_id)
removeContainer(st, id) ==
    IF id \in DOMAIN st.cs
    THEN
        LET o == st.cs[id]
            c == st.heap[o]
            sub == HasMetaDataChanged(c.cls)
            h2 == [st.heap EXCEPT ![o].connected = (@ /\ ~sub)]
            st2 == [st EXCEPT !.cs = Del(@, id),
                              !.files = _deleteFiles(st, o),
                              !.heap = h2,
                              !.qc = _clearQueryCacheByContainer(@, c.cls)]
        IN Outcome(st2,
                   (IF sub THEN <<Signal("disconnect", o, h2)>> ELSE <<>>)
                       \o <<Signal("containerRemoved", o, h2)>>,
                   [Op("removeContainer") EXCEPT !.cid = id, !.obj = o])
    ELSE removeUnknown(st, id)

renameEmitsSwapped(removed, added) == <<added, removed>>

\* renameContainer emits containerRemoved, then containerAdded.
renameEmits(removed, added) == <<removed, added>>

\* renameContainer(container_id, new_name, new_id); new_id = NoValue is None.
renameContainer(st, id, new_name, new_id) ==
    LET l == [Op("renameContainer") EXCEPT !.cid = id, !.newName = new_name,
                                            !.newId = new_id]
    IN
    IF id \notin DOMAIN st.cs THEN Outcome(st, <<>>, [l EXCEPT !.status = "unknown"])
    ELSE
        LET o == st.cs[id]
            c == st.heap[o]
            lk == [l EXCEPT !.obj = o]
        IN
        IF new_name = c.name THEN Outcome(st, <<>>, [lk EXCEPT !.status = "noop"])
        ELSE
            LET removed == Signal("containerRemoved", o, st.heap)
                h1 == [st.heap EXCEPT ![o].name = new_name]
                st1 == [st EXCEPT !.files = _deleteFiles(st, o), !.heap = h1]
            IN
            IF new_id # NoValue /\ c.id \notin DOMAIN st.cs
            THEN Outcome(st1, <<removed>>, [lk EXCEPT !.status = "KeyError"])
            ELSE
                LET h2 == IF new_id # NoValue
                          THEN [h1 EXCEPT ![o].id = new_id] ELSE h1
                    cs2 == IF new_id # NoValue
                           THEN Put(Del(st.cs, c.id), new_id, o) ELSE st.cs
                    st2 == [st1 EXCEPT !.heap = h2, !.cs = cs2,
                                       !.qc = _clearQueryCacheByContainer(@, c.cls)]
                IN Outcome(st2,
                           renameEmits(removed, Signal("containerAdded", o, h2)),
                           lk)

\* ------------------------------------------------------------------------
\* loadAllMetadata and load
\* ------------------------------------------------------------------------

RECURSIVE loadMetadataOverwriting(_, _, _)
loadMetadataOverwriting(md, p, i) ==
    IF i > Len(getAllIds(p)) THEN md
    ELSE LET id == getAllIds(p)[i] IN
         loadMetadataOverwriting(Put(md, id, loadMetadata(p, id)), p, i + 1)

RECURSIVE loadMetadataOf(_, _, _)
\* for container_id in provider.getAllIds(): fill the metadata table's gaps.
loadMetadataOf(md, p, i) ==
    IF i > Len(getAllIds(p)) THEN md
    ELSE LET id == getAllIds(p)[i] IN
         loadMetadataOf(IF id \notin DOMAIN md THEN Put(md, id, loadMetadata(p, id))
                        ELSE md, p, i + 1)

RECURSIVE loadAllMetadata(_, _)
\* loadAllMetadata(), from provider number j on.
loadAllMetadata(st, j) ==
    IF j > Len(st.p) THEN st
    ELSE loadAllMetadata([st EXCEPT !.md = loadMetadataOf(@, st.p[j], 1)], j + 1)

RECURSIVE loadContainersOf(_, _, _)
\* for container_id in provider.getAllIds(): load what the container table lacks.
loadContainersOf(st, p, i) ==
    IF i > Len(getAllIds(p)) THEN st
    ELSE LET id == getAllIds(p)[i]
             o == NewRef(st.heap)
         IN loadContainersOf(
                IF id \notin DOMAIN st.cs
                THEN [st EXCEPT !.heap[o] = loadContainer(p, id),
                                !.cs = Put(@, id, o),
                                !.md = Put(@, id, getMetaData(o))]
                ELSE st, p, i + 1)

RECURSIVE load(_, _)
\* load(), from provider number j on.
load(st, j) ==
    IF j > Len(st.p) THEN st
    ELSE load(loadContainersOf(st, st.p[j], 1), j + 1)

\* ------------------------------------------------------------------------
\* saveAll
\* ------------------------------------------------------------------------

\* How serialize() of a container ends.
SerializeOutcomes == {"ok", "NotImplementedError", "Exception"}

\* The three loops of saveAll: the variant it asks findContainers for, the
\* resource type of the storage path, and whether isDirty() is consulted.
SavePhases ==
    << [type |-> "InstanceContainer", rtype |-> "InstanceContainers", ifDirty |-> TRUE],
       [type |-> "ContainerStack", rtype |-> "ContainerStacks", ifDirty |-> TRUE],
       [type |-> "DefinitionContainer", rtype |-> "DefinitionContainers", ifDirty |-> FALSE] >>

\* One iteration of a loop of saveAll writes a file for container o:
\* it is dirty (where asked; _EmptyInstanceContainer.isDirty() is False),
\* serialize() returns, and getMimeTypeForContainer finds a mimetype for
\* exactly its class.
Saves(st, o, ifDirty) ==
    /\ ifDirty => (st.dirty[o] /\ st.heap[o].cls # "_EmptyInstanceContainer")
    /\ st.ser[o] = "ok"
    /\ MimeTypeOf(st.heap[o].cls) # NoValue

RECURSIVE saveFrom(_, _, _)
\* saveAll() from loop number k on, sigs being the writes done so far.
saveFrom(st, sigs, k) ==
    IF k > Len(SavePhases) THEN Outcome(st, sigs, Op("saveAll"))
    ELSE
        LET ph == SavePhases[k]
            f == findContainers(st, Query(ph.type, FALSE, NoValue, NoValue))
            st1 == [st EXCEPT !.qc = f.qc]
        IN
        IF f.raised # ""
        THEN Outcome(st1, sigs, [Op("saveAll") EXCEPT !.status = f.raised])
        ELSE
            LET objs == SelectSeq(f.ret, LAMBDA o : Saves(st, o, ph.ifDirty))
                written == {File(ph.rtype, st.heap[objs[i]].id,
                                 MimeTypeOf(st.heap[objs[i]].cls)) : i \in 1..Len(objs)}
            IN saveFrom([st1 EXCEPT !.files = @ \cup written],
                        sigs \o [i \in 1..Len(objs) |-> Signal("write", objs[i], st.heap)],
                        k + 1)

\* saveAll()
saveAll(st) == saveFrom(st, <<>>, 1)

\* ------------------------------------------------------------------------
\* uniqueName
\* ------------------------------------------------------------------------

IsSpace(c) == c = " "

IsDigit(c) == c \in {"0", "1", "2", "3", "4", "5", "6", "7", "8", "9"}

\* str.strip()
strip(cs) ==
    LET solid == {i \in 1..Len(cs) : ~IsSpace(cs[i])} IN
    IF solid = {} THEN <<>>
    ELSE SubSeq(cs, CHOOSE i \in solid : \A j \in solid : i <= j,
                    CHOOSE i \in solid : \A j \in solid : i >= j)

\* cs matches \s*#\d+$ as a whole.
IsNumberTail(cs) ==
    \E k \in 1..Len(cs) :
        /\ cs[k] = "#"
        /\ \A i \in 1..(k - 1) : IsSpace(cs[i])
        /\ k < Len(cs)
        /\ \A i \in (k + 1)..Len(cs) : IsDigit(cs[i])

\* re.compile(r"(.*?)\s*#\d+$").match(name): whether it matches.
num_check(cs) == \E n \in 0..Len(cs) : IsNumberTail(SubSeq(cs, n + 1, Len(cs)))

\* num_check.group(1): the shortest prefix the rest of which is a number tail.
group1(cs) ==
    LET ns == {n \in 0..Len(cs) : IsNumberTail(SubSeq(cs, n + 1, Len(cs)))}
    IN SubSeq(cs, 1, CHOOSE n \in ns : \A m \in ns : n <= m)

\* "%s #%d" % (name, i) of a loop that never reaches the next number.
NumberedStuck(cs, i) == cs \o <<" ", "#", "2">>

\* "%s #%d" % (name, i)
Numbered(cs, i) == cs \o <<" ", "#", ToString(i)>>

\* The outcome of
\*   self.findContainers(id = x, ignore_case = True) or self.findContainers(name = x)
\* given what the two queries return: whether a container already has this
\* name, or KeyError; the second query is asked only if the first finds nothing.
nameTakenOf(byId, byName) ==
    IF byId.raised # "" THEN [taken |-> FALSE, raised |-> byId.raised, qc |-> byId.qc]
    ELSE IF byId.ret # <<>> THEN [taken |-> TRUE, raised |-> "", qc |-> byId.qc]
    ELSE [taken |-> byName.ret # <<>>, raised |-> byName.raised, qc |-> byName.qc]

\* self.findContainers(name = x), asked after the query by id.
findByNameAfter(st, x, byId) ==
    nameTakenOf(byId, findContainers([st EXCEPT !.qc = byId.qc],
                                     Query("None", FALSE, NoValue, x)))

\* self.findContainers(id = x, ignore_case = True) or self.findContainers(name = x)
nameTaken(st, x) ==
    findByNameAfter(st, x, findContainers(st, Query("None", TRUE, x, NoValue)))

RECURSIVE uniqueNameFrom(_, _, _, _)
\* One turn of the while loop of uniqueName: candidate number i is
\* unique_name and t is what the look-up of it gave. The record of the call
\* counts the candidates the loop has looked up.
uniqueNameTried(st, original, name, i, unique_name, t) ==
    LET l == [Op("uniqueName") EXCEPT !.newName = original, !.tries = i]
        st1 == [st EXCEPT !.qc = t.qc]
    IN IF t.raised # "" THEN Outcome(st1, <<>>, [l EXCEPT !.status = t.raised])
       ELSE IF ~t.taken THEN Outcome(st1, <<>>, [l EXCEPT !.retName = unique_name])
       ELSE IF i >= MaxTries THEN Outcome(st1, <<>>, [l EXCEPT !.status = "running"])
       ELSE uniqueNameFrom(st1, original, name, i + 1)

uniqueNameTry(st, original, name, i, unique_name) ==
    uniqueNameTried(st, original, name, i, unique_name, nameTaken(st, unique_name))

\* The while loop of uniqueName, at candidate number i.
uniqueNameFrom(st, original, name, i) ==
    uniqueNameTry(st, original, name, i,
                  Str(IF i = 1 THEN name ELSE Numbered(name, i)))

\* uniqueName after the look-up t of the stripped original; name is the
\* stripped original without its number. A call that returns the stripped
\* original never enters the loop.
uniqueNameChecked(st, original, stripped, name, t) ==
    LET l == [Op("uniqueName") EXCEPT !.newName = original]
        st1 == [st EXCEPT !.qc = t.qc]
    IN IF name = <<>> THEN uniqueNameFrom(st, original, <<"Profile">>, 1)
       ELSE IF t.raised # "" THEN Outcome(st1, <<>>, [l EXCEPT !.status = t.raised])
       ELSE IF ~t.taken THEN Outcome(st1, <<>>, [l EXCEPT !.retName = Str(stripped)])
       ELSE uniqueNameFrom(st1, original, name, 1)

uniqueNameOf(st, original, stripped) ==
    uniqueNameChecked(st, original, stripped,
                      IF num_check(stripped) THEN group1(stripped) ELSE stripped,
                      nameTaken(st, Str(stripped)))

\* uniqueName(original)
uniqueName(st, original) == uniqueNameOf(st, original, strip(Chars(original)))

\* ------------------------------------------------------------------------
\* Initial state and actions
\* ------------------------------------------------------------------------

Init ==
    /\ _providers = <<>>
    /\ metadata = [x \in {} |-> 0]
    /\ heap = <<NewContainer("_EmptyInstanceContainer", EmptyId)>>
                \o [i \in 1..MaxOps |-> FreeSlot]
    /\ _containers = [x \in {EmptyId} |-> 1]
    /\ _query_cache = <<>>
    /\ _resource_types = <<"DefinitionContainers">>
    /\ files = InitialFiles
    /\ isDirty = [o \in 1..(MaxOps + 1) |-> FALSE]
    /\ serialize = [o \in 1..(MaxOps + 1) |-> "ok"]
    /\ lock_holder = 0
    /\ saving = [i \in Instances |-> Idle]
    /\ cache_lock_holder = 0
    /\ loading = [i \in Instances |-> NotLoading]
    /\ signals = <<>>
    /\ last = Op("init")
    /\ nops = 0

\* The queries the model asks.
FindQueries ==
    { IdQuery("a"),
      Query("None", FALSE, NoValue, NoValue),
      Query("InstanceContainer", FALSE, NoValue, NoValue) }

AddProvider ==
    \E p \in Providers :
        /\ nops < MaxOps
        /\ \A i \in 1..Len(_providers) : _providers[i] # p
        /\ Apply(Outcome([Cur EXCEPT !.p = SortByPriority(Append(@, p))], <<>>,
                         Op("addProvider")))

LoadAllMetadata ==
    /\ nops < MaxOps
    /\ Apply(Outcome(loadAllMetadata(Cur, 1), <<>>, Op("loadAllMetadata")))

\* The ids load() creates a container for.
ToLoad ==
    {id \in Ids \cup NameIds :
                  /\ id \notin DOMAIN _containers
                  /\ \E j \in 1..Len(_providers) :
                        \E i \in 1..Len(getAllIds(_providers[j])) :
                            getAllIds(_providers[j])[i] = id}

Load ==
    /\ nops < MaxOps
    /\ Cardinality(ToLoad) <= Cardinality({o \in 1..Len(heap) : heap[o] = FreeSlot})
    /\ Apply(Outcome(load(Cur, 1), <<>>, Op("load")))

FindContainersMetadata ==
    \E q \in FindQueries :
        /\ nops < MaxOps
        /\ LET r == findContainersMetadata(Cur, q) IN
           Apply(Outcome([Cur EXCEPT !.qc = r.qc], <<>>,
                         [Op("findContainersMetadata") EXCEPT
                              !.query = q, !.retMeta = r.ret]))

FindContainers ==
    \E q \in FindQueries :
        /\ nops < MaxOps
        /\ LET r == findContainers(Cur, q) IN
           Apply(Outcome([Cur EXCEPT !.qc = r.qc], <<>>,
                         [Op("findContainers") EXCEPT
                              !.query = q, !.retObjs = r.ret,
                              !.status = IF r.raised # "" THEN r.raised ELSE "done"]))

AddContainer ==
    \/ \E o \in Live(heap) :
        /\ nops < MaxOps
        /\ Apply(addContainer(Cur, o))
    \/ \E cls \in AddClasses, id \in Ids :
        /\ nops < MaxOps
        /\ HasRoom(heap)
        /\ Apply(addContainer([Cur EXCEPT !.heap[NewRef(heap)] = NewContainer(cls, id)],
                              NewRef(heap)))

RemoveContainer ==
    \E id \in AllIds :
        /\ nops < MaxOps
        /\ Apply(removeContainer(Cur, id))

RenameContainer ==
    \E id \in AllIds, new_name \in NewNames, new_id \in Ids \cup {NoValue} :
        /\ nops < MaxOps
        /\ Apply(renameContainer(Cur, id, new_name, new_id))

\* A container emits metaDataChanged: _onContainerMetaDataChanged re-emits
\* containerMetaDataChanged, to which _clearQueryCache is connected.
MetaDataChanged ==
    \E o \in Live(heap) :
        /\ nops < MaxOps
        /\ HasMetaDataChanged(heap[o].cls)
        /\ IF heap[o].connected
           THEN Apply(Outcome([Cur EXCEPT !.qc = _clearQueryCache(@)],
                              <<Signal("containerMetaDataChanged", o, heap)>>,
                              [Op("metaDataChanged") EXCEPT !.obj = o]))
           ELSE Apply(Outcome(Cur, <<>>, [Op("metaDataChanged") EXCEPT
                                              !.obj = o, !.status = "noop"]))

Next ==
    \/ AddProvider
    \/ LoadAllMetadata
    \/ Load
    \/ FindContainersMetadata
    \/ FindContainers
    \/ AddContainer
    \/ RemoveContainer
    \/ RenameContainer
    \/ MetaDataChanged

Spec == Init /\ [][Next]_vars

\* ------------------------------------------------------------------------
\* The registry with a filled query cache.  findContainersMetadata never
\* stores a query (see C7), so _clearQueryCacheByContainer and
\* _clearQueryCache are applied here to every cache of at most
\* MaxQueryCacheSize entries with distinct queries.
\* ------------------------------------------------------------------------

\* The queries of the cache entries: one per type filter.
CacheQueries ==
    {Query(t, FALSE, NoValue, NoValue) : t \in BaseTypes \cup {"None"}}

CacheEntry(q) ==
    [query |-> q,
     result |-> IF q.container_type \in {"None", "InstanceContainer"}
                THEN <<loadMetadata("p1", "a")>> ELSE <<>>]

\* The caches of n entries.
CachesOf(n) ==
    {c \in [1..n -> {CacheEntry(q) : q \in CacheQueries}] :
        \A i, j \in 1..n : i # j => c[i].query # c[j].query}

InitCache ==
    /\ _providers = <<>>
    /\ metadata = [x \in {} |-> 0]
    /\ heap = <<NewContainer("_EmptyInstanceContainer", EmptyId)>>
                \o [i \in 1..MaxOps |-> FreeSlot]
    /\ _containers = [x \in {EmptyId} |-> 1]
    /\ _query_cache \in UNION {CachesOf(n) : n \in 0..MaxQueryCacheSize}
    /\ _resource_types = <<"DefinitionContainers">>
    /\ files = InitialFiles
    /\ isDirty = [o \in 1..(MaxOps + 1) |-> FALSE]
    /\ serialize = [o \in 1..(MaxOps + 1) |-> "ok"]
    /\ lock_holder = 0
    /\ saving = [i \in Instances |-> Idle]
    /\ cache_lock_holder = 0
    /\ loading = [i \in Instances |-> NotLoading]
    /\ signals = <<>>
    /\ last = Op("init")
    /\ nops = 0

CacheFindContainersMetadata == nops < MaxCacheOps /\ FindContainersMetadata

CacheFindContainers == nops < MaxCacheOps /\ FindContainers

CacheAddContainer == nops < MaxCacheOps /\ AddContainer

CacheRemoveContainer == nops < MaxCacheOps /\ RemoveContainer

CacheRenameContainer == nops < MaxCacheOps /\ RenameContainer

CacheMetaDataChanged == nops < MaxCacheOps /\ MetaDataChanged

NextCache ==
    \/ CacheFindContainersMetadata
    \/ CacheFindContainers
    \/ CacheAddContainer
    \/ CacheRemoveContainer
    \/ CacheRenameContainer
    \/ CacheMetaDataChanged

SpecCache == InitCache /\ [][NextCache]_vars

\* ------------------------------------------------------------------------
\* Providers and loading: four provider plug-ins, two of them of equal
\* priority 0 (one by default), two of priority 1, with overlapping id lists.
\* ------------------------------------------------------------------------

LoadAddProvider ==
    \E p \in ProviderPlugins :
        /\ nops < MaxLoadOps
        /\ \A i \in 1..Len(_providers) : _providers[i] # p
        /\ Apply(Outcome([Cur EXCEPT !.p = SortByPriority(Append(@, p))], <<>>,
                         [Op("addProvider") EXCEPT !.cid = p]))

LoadLoadAllMetadata == nops < MaxLoadOps /\ LoadAllMetadata

LoadLoad == nops < MaxLoadOps /\ Load

LoadRemoveContainer == nops < MaxLoadOps /\ RemoveContainer

LoadFindContainers == nops < MaxLoadOps /\ FindContainers

NextLoad ==
    \/ LoadAddProvider
    \/ LoadLoadAllMetadata
    \/ LoadLoad
    \/ LoadRemoveContainer
    \/ LoadFindContainers

SpecLoad == Init /\ [][NextLoad]_vars

\* ------------------------------------------------------------------------
\* Saving: the containers that come into the registry are dirty or not, and
\* their serialize() returns, is unsupported or fails.
\* ------------------------------------------------------------------------

\* The container objects whose flag and serialization vary.
SaveObjects == 2..3

InitSave ==
    /\ _providers = <<>>
    /\ metadata = [x \in {} |-> 0]
    /\ heap = <<NewContainer("_EmptyInstanceContainer", EmptyId)>>
                \o [i \in 1..MaxOps |-> FreeSlot]
    /\ _containers = [x \in {EmptyId} |-> 1]
    /\ _query_cache = <<>>
    /\ _resource_types = <<"DefinitionContainers">>
    /\ files = InitialFiles
    /\ isDirty \in {f \in [1..(MaxOps + 1) -> BOOLEAN] :
                        \A o \in (1..(MaxOps + 1)) \ SaveObjects : ~f[o]}
    /\ serialize \in {f \in [1..(MaxOps + 1) -> SerializeOutcomes] :
                        \A o \in (1..(MaxOps + 1)) \ SaveObjects : f[o] = "ok"}
    /\ lock_holder = 0
    /\ saving = [i \in Instances |-> Idle]
    /\ cache_lock_holder = 0
    /\ loading = [i \in Instances |-> NotLoading]
    /\ signals = <<>>
    /\ last = Op("init")
    /\ nops = 0

SaveAll ==
    /\ nops < MaxSaveOps
    /\ Apply(saveAll(Cur))

SaveAddProvider == nops < MaxSaveOps /\ LoadAddProvider

SaveLoad == nops < MaxSaveOps /\ Load

SaveLoadAllMetadata == nops < MaxSaveOps /\ LoadAllMetadata

SaveAddContainer == nops < MaxSaveOps /\ AddContainer

NextSave ==
    \/ SaveAddProvider
    \/ SaveLoad
    \/ SaveLoadAllMetadata
    \/ SaveAddContainer
    \/ SaveAll

SpecSave == InitSave /\ [][NextSave]_vars

\* ------------------------------------------------------------------------
\* Two registry instances on the same storage.  saveAll is taken write by
\* write; lockFile() is what a caller wraps around its calls.
\* ------------------------------------------------------------------------

\* The resource type of the storage path saveAll writes a container to.
StorageOf(cls) ==
    CASE BaseTypeOf(cls) = "InstanceContainer" -> "InstanceContainers"
      [] BaseTypeOf(cls) = "ContainerStack" -> "ContainerStacks"
      [] OTHER -> "DefinitionContainers"

\* The files saveAll() of the registry in state st writes, in order.
SaveAllWrites(st) ==
    LET w == SelectSeq(saveAll(st).signals, LAMBDA e : e.kind = "write")
    IN [i \in 1..Len(w) |->
            File(StorageOf(st.heap[w[i].obj].cls), w[i].id,
                 MimeTypeOf(st.heap[w[i].obj].cls))]

\* The files saveAll() of the other instance writes: it has loaded the two
\* definition containers of provider "p3".
OtherWrites ==
    << File("DefinitionContainers", "a", "definitioncontainer"),
       File("DefinitionContainers", "b", "definitioncontainer") >>

\* with registry.lockFile(): entered by the caller of instance i.
LockFileEnter ==
    \E i \in Instances :
        /\ nops < MaxLockSteps
        /\ lock_holder = 0
        /\ saving[i].pc = "idle"
        /\ lock_holder' = i
        /\ nops' = nops + 1
        /\ UNCHANGED <<_providers, metadata, _containers, _query_cache,
                       _resource_types, heap, files, isDirty, serialize,
                       saving, signals, last,
                       cache_lock_holder, loading>>

\* with registry.lockFile(): left.
LockFileExit ==
    \E i \in Instances :
        /\ nops < MaxLockSteps
        /\ lock_holder = i
        /\ saving[i].pc = "idle"
        /\ lock_holder' = 0
        /\ nops' = nops + 1
        /\ UNCHANGED <<_providers, metadata, _containers, _query_cache,
                       _resource_types, heap, files, isDirty, serialize,
                       saving, signals, last,
                       cache_lock_holder, loading>>

\* saveAll() of instance i is called: the containers to write are found.
SaveAllStart ==
    \E i \in Instances :
        /\ nops < MaxLockSteps
        /\ saving[i].pc = "idle"
        /\ saving' = [saving EXCEPT
                          ![i] = [pc |-> "saving",
                                  todo |-> IF i = 1 THEN SaveAllWrites(Cur)
                                           ELSE OtherWrites,
                                  written |-> 0]]
        /\ nops' = nops + 1
        /\ UNCHANGED <<_providers, metadata, _containers, _query_cache,
                       _resource_types, heap, files, isDirty, serialize,
                       lock_holder, signals, last,
                       cache_lock_holder, loading>>

\* with SaveFile(path, "wt") as f: f.write(data), by instance i.
SaveAllWrite ==
    \E i \in Instances :
        /\ nops < MaxLockSteps
        /\ saving[i].pc = "saving"
        /\ saving[i].todo # <<>>
        /\ files' = files \cup {Head(saving[i].todo)}
        /\ saving' = [saving EXCEPT ![i].todo = Tail(@), ![i].written = @ + 1]
        /\ nops' = nops + 1
        /\ UNCHANGED <<_providers, metadata, _containers, _query_cache,
                       _resource_types, heap, isDirty, serialize,
                       lock_holder, signals, last,
                       cache_lock_holder, loading>>

\* saveAll() of instance i returns.
SaveAllReturn ==
    \E i \in Instances :
        /\ nops < MaxLockSteps
        /\ saving[i].pc = "saving"
        /\ saving[i].todo = <<>>
        /\ saving' = [saving EXCEPT ![i] = Idle]
        /\ nops' = nops + 1
        /\ UNCHANGED <<_providers, metadata, _containers, _query_cache,
                       _resource_types, heap, files, isDirty, serialize,
                       lock_holder, signals, last,
                       cache_lock_holder, loading>>

LockAddProvider == saving[1].pc = "idle" /\ LoadAddProvider

LockLoad == saving[1].pc = "idle" /\ Load

NextSaveLock ==
    \/ LockAddProvider
    \/ LockLoad
    \/ LockFileEnter
    \/ LockFileExit
    \/ SaveAllStart
    \/ SaveAllWrite
    \/ SaveAllReturn

SpecSaveLock == Init /\ [][NextSaveLock]_vars

\* ------------------------------------------------------------------------
\* Names: containers called "Profile", "Profile #2", "profile", loaded from
\* a provider or added, and uniqueName asked for names like theirs.
\* ------------------------------------------------------------------------

\* The arguments of uniqueName.
Originals == {"Profile", " Profile ", "profile", "Profile #2", "Profile#2", "#2", ""}

NamesAddProvider ==
    /\ nops < MaxNameOps
    /\ \A i \in 1..Len(_providers) : _providers[i] # "p5"
    /\ Apply(Outcome([Cur EXCEPT !.p = SortByPriority(Append(@, "p5"))], <<>>,
                     [Op("addProvider") EXCEPT !.cid = "p5"]))

NamesLoad == nops < MaxNameOps /\ Load

NamesAddContainer ==
    \E id \in NameIds :
        /\ nops < MaxNameOps
        /\ HasRoom(heap)
        /\ Apply(addContainer([Cur EXCEPT !.heap[NewRef(heap)] =
                                   NewContainer("InstanceContainer", id)],
                              NewRef(heap)))

NamesRenameContainer ==
    \E id \in NameIds :
    \E new_name \in {"Profile #3", "Profile #4"} :
        /\ nops < MaxNameOps
        /\ Apply(renameContainer(Cur, id, new_name, NoValue))

UniqueName ==
    \E original \in Originals :
        /\ nops < MaxNameOps
        /\ Apply(uniqueName(Cur, original))

NextNames ==
    \/ NamesAddProvider
    \/ NamesLoad
    \/ NamesAddContainer
    \/ NamesRenameContainer
    \/ UniqueName

SpecNames == Init /\ [][NextNames]_vars

\* ------------------------------------------------------------------------
\* Look-ups by id: the registry with a filled query cache, containers and
\* metadata loaded from providers, and queries by id and by type.
\* ------------------------------------------------------------------------

IdAddProvider == nops < MaxIdOps /\ AddProvider

IdLoadAllMetadata == nops < MaxIdOps /\ LoadAllMetadata

IdLoad == nops < MaxIdOps /\ Load

IdRenameContainer == nops < MaxIdOps /\ RenameContainer

IdFindContainersMetadata == nops < MaxIdOps /\ FindContainersMetadata

NextIds ==
    \/ IdAddProvider
    \/ IdLoadAllMetadata
    \/ IdLoad
    \/ IdRenameContainer
    \/ IdFindContainersMetadata

SpecIds == InitCache /\ [][NextIds]_vars

\* ------------------------------------------------------------------------
\* load() under the cache lock: two registry instances on the same cache
\* directory. load() is followed turn by turn of its loop; a provider may
\* raise from loadContainer, and the lock may be held by the other instance
\* for longer than the timeout.
\* ------------------------------------------------------------------------

RECURSIVE LoadItems(_, _)
\* for provider in self._providers: for container_id in provider.getAllIds():
\* the pairs the loop visits, from provider number j on.
LoadItems(ps, j) ==
    IF j > Len(ps) THEN <<>>
    ELSE [i \in 1..Len(getAllIds(ps[j])) |-> <<ps[j], getAllIds(ps[j])[i]>>]
         \o LoadItems(ps, j + 1)

\* The pairs the loop of the other instance visits.
OtherLoads == <<<<"p3", "a">>, <<"p3", "b">>>>

\* The body of the loop of load() for one id the container table lacks.
loadItem(st, p, id) ==
    [st EXCEPT !.heap[NewRef(st.heap)] = loadContainer(p, id),
               !.cs = Put(@, id, NewRef(st.heap)),
               !.md = Put(@, id, getMetaData(NewRef(st.heap)))]

\* load() of instance i is called and enters "with self.lockCache()"
\* without taking the lock.
LoadCallUnlocked ==
    \E i \in Instances :
        /\ nops < MaxLoadSteps
        /\ loading[i].pc = "idle"
        /\ loading' = [loading EXCEPT
                           ![i] = [pc |-> "loading",
                                   todo |-> IF i = 1 THEN LoadItems(_providers, 1)
                                            ELSE OtherLoads,
                                   loaded |-> 0, ended |-> ""]]
        /\ nops' = nops + 1
        /\ UNCHANGED <<_providers, metadata, _containers, _query_cache,
                       _resource_types, heap, files, isDirty, serialize,
                       lock_holder, saving, cache_lock_holder, signals, last>>

\* load() of instance i is called and enters "with self.lockCache()": the
\* lock is free and taken.
LoadCall ==
    \E i \in Instances :
        /\ nops < MaxLoadSteps
        /\ loading[i].pc = "idle"
        /\ cache_lock_holder = 0
        /\ cache_lock_holder' = i
        /\ loading' = [loading EXCEPT
                           ![i] = [pc |-> "loading",
                                   todo |-> IF i = 1 THEN LoadItems(_providers, 1)
                                            ELSE OtherLoads,
                                   loaded |-> 0, ended |-> ""]]
        /\ nops' = nops + 1
        /\ UNCHANGED <<_providers, metadata, _containers, _query_cache,
                       _resource_types, heap, files, isDirty, serialize,
                       lock_holder, saving, signals, last>>

\* load() of instance i is called while the other instance holds the lock
\* for longer than the timeout: LockFile raises and load() passes it on.
LoadLockTimeout ==
    \E i \in Instances :
        /\ nops < MaxLoadSteps
        /\ loading[i].pc = "idle"
        /\ cache_lock_holder \notin {0, i}
        /\ loading' = [loading EXCEPT ![i] = [pc |-> "idle", todo |-> <<>>,
                                              loaded |-> 0, ended |-> "LockTimeout"]]
        /\ nops' = nops + 1
        /\ UNCHANGED <<_providers, metadata, _containers, _query_cache,
                       _resource_types, heap, files, isDirty, serialize,
                       lock_holder, saving, cache_lock_holder, signals, last>>

\* A turn of the loop of load() for an id the container table has already.
LoadSkip ==
    /\ nops < MaxLoadSteps
    /\ loading[1].pc = "loading"
    /\ loading[1].todo # <<>>
    /\ Head(loading[1].todo)[2] \in DOMAIN _containers
    /\ loading' = [loading EXCEPT ![1].todo = Tail(@)]
    /\ nops' = nops + 1
    /\ UNCHANGED <<_providers, metadata, _containers, _query_cache,
                   _resource_types, heap, files, isDirty, serialize,
                   lock_holder, saving, cache_lock_holder, signals, last>>

\* A turn of the loop of load(): provider.loadContainer(container_id)
\* returns a container, which is stored in both tables.
LoadContainer ==
    \E i \in Instances :
        /\ nops < MaxLoadSteps
        /\ loading[i].pc = "loading"
        /\ loading[i].todo # <<>>
        /\ loading' = [loading EXCEPT ![i].todo = Tail(@), ![i].loaded = @ + 1]
        /\ nops' = nops + 1
        /\ IF i = 1
           THEN /\ Head(loading[1].todo)[2] \notin DOMAIN _containers
                /\ HasRoom(heap)
                /\ LET st == loadItem(Cur, Head(loading[1].todo)[1],
                                      Head(loading[1].todo)[2])
                   IN /\ heap' = st.heap
                      /\ _containers' = st.cs
                      /\ metadata' = st.md
           ELSE UNCHANGED <<heap, _containers, metadata>>
        /\ UNCHANGED <<_providers, _query_cache, _resource_types, files,
                       isDirty, serialize, lock_holder, saving,
                       cache_lock_holder, signals, last>>

\* A turn of the loop of load(): provider.loadContainer(container_id)
\* raises; the exception leaves the with block, which releases the lock.
LoadContainerRaises ==
    \E i \in Instances :
        /\ nops < MaxLoadSteps
        /\ loading[i].pc = "loading"
        /\ loading[i].todo # <<>>
        /\ i = 1 => Head(loading[1].todo)[2] \notin DOMAIN _containers
        /\ loading' = [loading EXCEPT ![i] = [pc |-> "idle", todo |-> <<>>,
                                              loaded |-> @.loaded + 1,
                                              ended |-> "raised"]]
        /\ cache_lock_holder' = IF cache_lock_holder = i THEN 0 ELSE cache_lock_holder
        /\ nops' = nops + 1
        /\ UNCHANGED <<_providers, metadata, _containers, _query_cache,
                       _resource_types, heap, files, isDirty, serialize,
                       lock_holder, saving, signals, last>>

\* The loop of load() of instance i is over: the with block is left, which
\* releases the lock, and load() returns.
LoadReturn ==
    \E i \in Instances :
        /\ nops < MaxLoadSteps
        /\ loading[i].pc = "loading"
        /\ loading[i].todo = <<>>
        /\ loading' = [loading EXCEPT ![i].pc = "idle", ![i].ended = "done"]
        /\ cache_lock_holder' = IF cache_lock_holder = i THEN 0 ELSE cache_lock_holder
        /\ nops' = nops + 1
        /\ UNCHANGED <<_providers, metadata, _containers, _query_cache,
                       _resource_types, heap, files, isDirty, serialize,
                       lock_holder, saving, signals, last>>

LoadLockAddProvider ==
    /\ nops < MaxLoadSteps
    /\ loading[1].pc = "idle"
    /\ \E p \in {"p3", "p4"} :
          /\ \A i \in 1..Len(_providers) : _providers[i] # p
          /\ Apply(Outcome([Cur EXCEPT !.p = SortByPriority(Append(@, p))], <<>>,
                           [Op("addProvider") EXCEPT !.cid = p]))

NextLoadLock ==
    \/ LoadLockAddProvider
    \/ LoadCall
    \/ LoadLockTimeout
    \/ LoadSkip
    \/ LoadContainer
    \/ LoadContainerRaises
    \/ LoadReturn

SpecLoadLock == Init /\ [][NextLoadLock]_vars

\* ------------------------------------------------------------------------
\* Properties
\* ------------------------------------------------------------------------

\* What findContainers(id = x) returns and raises in the current state.
FoundById(x) == findContainers(Cur, IdQuery(x)).ret

RaisedById(x) == findContainers(Cur, IdQuery(x)).raised

\* What findContainersMetadata(id = x) returns in the current state.
FoundMetadataById(x) == findContainersMetadata(Cur, IdQuery(x)).ret

\* The container objects in the container table.
Registered == {_containers[k] : k \in DOMAIN _containers}

\* C1: for every container c whose id x is not yet registered (x is in
\* neither table), addContainer(c) followed immediately by
\* findContainers(id = x) returns the list that holds exactly c.
C1_AddThenFindReturnsIt ==
    [][\A x \in Ids :
          (/\ last'.op = "addContainer"
           /\ last'.cid = x
           /\ x \notin DOMAIN _containers
           /\ x \notin DOMAIN metadata)
          => (FoundById(x)' = <<last'.obj>> /\ RaisedById(x)' = "")]_vars

\* C2: when a container of some class and id has been added by addContainer,
\* a second addContainer of a container of that class and id is a no-op: both
\* tables and the query cache are unchanged, nothing is connected and no
\* containerAdded is emitted.
C2_SecondAddIsNoop ==
    [][(/\ last.op = "addContainer"
        /\ last.status = "done"
        /\ last.cid \in Ids
        /\ last'.op = "addContainer"
        /\ heap'[last'.obj].cls = heap[last.obj].cls
        /\ heap'[last'.obj].id = heap[last.obj].id)
       => (/\ _containers' = _containers
           /\ metadata' = metadata
           /\ _query_cache' = _query_cache
           /\ signals' = <<>>)]_vars

\* C3: after removeContainer(x) of an id x that was in the container table,
\* x is in neither table, and findContainersMetadata(id = x) and
\* findContainers(id = x) both return the empty list.
C3_RemovedFromBothTables ==
    (last.op = "removeContainer" /\ last.status = "done")
    => (/\ last.cid \notin DOMAIN _containers
        /\ last.cid \notin DOMAIN metadata
        /\ FoundMetadataById(last.cid) = <<>>
        /\ FoundById(last.cid) = <<>>
        /\ RaisedById(last.cid) = "")

\* C4: removeContainer(x) and renameContainer(x, name, newId) with an id x
\* that is not in the container table change nothing (tables, cache,
\* subscriptions, files), emit nothing and raise nothing.
C4_UnknownIdChangesNothing ==
    [][(/\ last'.op \in {"removeContainer", "renameContainer"}
        /\ last'.cid \notin DOMAIN _containers)
       => (/\ UNCHANGED <<_providers, metadata, _containers, _query_cache,
                          _resource_types, heap, files>>
           /\ signals' = <<>>
           /\ last'.status = "unknown")]_vars

\* A removeContainer of an unknown id whose backing file is in storage.
C4_Witness ==
    /\ last.op = "removeContainer"
    /\ last.status = "unknown"
    /\ \E f \in files : f.id = last.cid

\* C5: every effective renameContainer (known id, new name different from
\* the current one) emits exactly containerRemoved and then containerAdded
\* for that container; containerRemoved carries the old name and id,
\* containerAdded the new name and the new id.
C5_RenameEmitsRemovedThenAdded ==
    [][(/\ last'.op = "renameContainer"
        /\ last'.cid \in DOMAIN _containers
        /\ heap[_containers[last'.cid]].name # last'.newName)
       => LET o == _containers[last'.cid] IN
          /\ last'.obj = o
          /\ last'.status = "done"
          /\ heap'[o].name = last'.newName
          /\ heap'[o].id = IF last'.newId # NoValue THEN last'.newId ELSE heap[o].id
          /\ signals' =
                << [kind |-> "containerRemoved", obj |-> o,
                    id |-> heap[o].id, name |-> heap[o].name],
                   [kind |-> "containerAdded", obj |-> o,
                    id |-> heap'[o].id, name |-> heap'[o].name] >>]_vars

\* An effective renameContainer that gave the container another id.
C5_Witness ==
    /\ last.op = "renameContainer"
    /\ last.status = "done"
    /\ last.newId \notin {NoValue, last.cid}
    /\ Len(signals) = 2

\* C6: after an effective renameContainer(oldId, newName, newId) with newId
\* given and different from oldId, of a container that is in both tables,
\* oldId is in neither table and newId is in both, mapped to the renamed
\* container and to its metadata.
C6_RenameRekeysBothTables ==
    [][(/\ last'.op = "renameContainer"
        /\ last'.status = "done"
        /\ last'.newId \notin {NoValue, last'.cid}
        /\ last'.cid \in DOMAIN metadata
        /\ metadata[last'.cid] = getMetaData(last'.obj))
       => (/\ last'.cid \notin DOMAIN _containers'
           /\ last'.cid \notin DOMAIN metadata'
           /\ last'.newId \in DOMAIN _containers'
           /\ _containers'[last'.newId] = last'.obj
           /\ last'.newId \in DOMAIN metadata'
           /\ metadata'[last'.newId] = getMetaData(last'.obj))]_vars

\* C7: after findContainersMetadata of a query that is not id-only, the
\* query is in the query cache, and the same call again is answered from the
\* cache, with the same result and without a scan of the metadata table.
C7_SecondQueryHitsCache ==
    (last.op = "findContainersMetadata" /\ ~isIdOnly(last.query))
    => (/\ last.query \in CacheKeys(_query_cache)
        /\ findContainersMetadata(Cur, last.query).hit
        /\ ~findContainersMetadata(Cur, last.query).executed
        /\ findContainersMetadata(Cur, last.query).ret = last.retMeta)

\* The queries of the cache, least recently used first.
CacheOrder(cache) == [i \in 1..Len(cache) |-> cache[i].query]

\* C8: the query cache is a pure LRU of capacity MaxQueryCacheSize: a query
\* that is not id-only becomes the most recently used entry, a hit keeps
\* every other entry, and a miss on a full cache evicts exactly the least
\* recently used entry.
C8_CacheIsLRU ==
    [][(last'.op = "findContainersMetadata" /\ ~isIdOnly(last'.query))
       => LET q == last'.query
              keys == CacheOrder(_query_cache)
              i == CacheIndex(_query_cache, q)
          IN CacheOrder(_query_cache') =
                IF i # 0 THEN Append(RemoveAt(keys, i), q)
                ELSE IF Len(keys) >= MaxQueryCacheSize THEN Append(Tail(keys), q)
                ELSE Append(keys, q)]_vars

\* The entries of a cache whose type filter is set and differs from type.
OfOtherVariant(cache, type) ==
    SelectSeq(cache, LAMBDA e : e.query.container_type \notin {"None", type})

\* C9: an effective addContainer, removeContainer or renameContainer of a
\* container whose base variant is V drops exactly the cache entries whose
\* type filter is unset or V; the entries with another type filter are
\* kept, with their results and in their order.
C9_TargetedInvalidation ==
    [][(/\ last'.op \in {"addContainer", "removeContainer", "renameContainer"}
        /\ last'.status = "done"
        /\ BaseTypeOf(heap'[last'.obj].cls) # NoValue)
       => _query_cache' =
             OfOtherVariant(_query_cache, BaseTypeOf(heap'[last'.obj].cls))]_vars

\* An instance container was removed and the two entries of the other
\* variants are still in the cache.
C9_Witness ==
    /\ last.op = "removeContainer"
    /\ last.status = "done"
    /\ BaseTypeOf(heap[last.obj].cls) = "InstanceContainer"
    /\ Len(_query_cache) = 2

\* C10: a metaDataChanged of a container that is in the container table and
\* was added or loaded makes the registry emit containerMetaDataChanged and
\* empties the query cache; a metaDataChanged of a container that
\* removeContainer has just removed does not reach the registry.
C10_MetaDataChangeReachesRegistry ==
    [][(last'.op = "metaDataChanged" /\ last'.obj # 1)
       => LET o == last'.obj IN
          /\ o \in Registered
             => /\ signals' = <<Signal("containerMetaDataChanged", o, heap)>>
                /\ _query_cache' = <<>>
          /\ (last.op = "removeContainer" /\ last.status = "done" /\ last.obj = o)
             => signals' = <<>>]_vars

\* C11: after every addProvider(p) the provider list is sorted by ascending
\* priority (a plug-in without a priority counts as 0), the providers that
\* were in the list keep their order, and p stands behind every provider of
\* its own priority, so that providers of equal priority are in the order in
\* which they were added.
C11_ProvidersSortedStable ==
    [][last'.op = "addProvider"
       => LET p == last'.cid
              new == _providers'
          IN /\ Len(new) = Len(_providers) + 1
             /\ \A i, j \in 1..Len(new) :
                    i < j => Priority(new[i]) <= Priority(new[j])
             /\ \E k \in 1..Len(new) :
                    /\ new[k] = p
                    /\ RemoveAt(new, k) = _providers
                    /\ \A i \in 1..Len(new) :
                          Priority(new[i]) = Priority(p) => i <= k]_vars

\* A provider of default priority 0 was added after one of explicit priority
\* 0 and one of priority 1, and stands between them.
C11_Witness ==
    /\ last.op = "addProvider"
    /\ last.cid = "p3"
    /\ _providers = <<"p2", "p3", "p1">>

\* Whether provider p lists id.
Lists(p, id) == \E i \in 1..Len(getAllIds(p)) : getAllIds(p)[i] = id

\* The ids some provider of the list lists.
ProvidedIds == {id \in Ids : \E j \in 1..Len(_providers) : Lists(_providers[j], id)}

\* C12: loadAllMetadata leaves every metadata entry that existed before the
\* call as it was, stores for every other id a provider lists the metadata
\* of the first provider, in priority order, that lists it, and is
\* idempotent: called again in the state it left, it yields the same
\* metadata table.
C12_LoadAllMetadataFillsGaps ==
    [][last'.op = "loadAllMetadata"
       => /\ \A id \in DOMAIN metadata :
                id \in DOMAIN metadata' /\ metadata'[id] = metadata[id]
          /\ DOMAIN metadata' = DOMAIN metadata \cup ProvidedIds
          /\ \A id \in DOMAIN metadata' \ DOMAIN metadata :
                \E j \in 1..Len(_providers) :
                    /\ Lists(_providers[j], id)
                    /\ \A i \in 1..(j - 1) : ~Lists(_providers[i], id)
                    /\ metadata'[id] = loadMetadata(_providers[j], id)
          /\ loadAllMetadata(Cur, 1)' = Cur']_vars

\* loadAllMetadata was called again after a provider of higher rank that
\* lists "a" was added: the entry of the lower-ranked provider is still there.
C12_Witness ==
    /\ last.op = "loadAllMetadata"
    /\ _providers = <<"p2", "p1">>
    /\ "a" \in DOMAIN metadata
    /\ metadata["a"] = loadMetadata("p1", "a")

\* C13: load() writes a table only where it has no entry: every id that was
\* in the container table before the call maps to the same container after
\* it, and every id that was in the metadata table before the call has
\* metadata of the same contents after it.
C13_LoadFirstWriterWins ==
    [][last'.op = "load"
       => /\ \A id \in DOMAIN _containers :
                id \in DOMAIN _containers' /\ _containers'[id] = _containers[id]
          /\ \A id \in DOMAIN metadata :
                /\ id \in DOMAIN metadata'
                /\ MetaView(heap', metadata'[id]) = MetaView(heap, metadata[id])]_vars

\* C14: in every reachable state every id of the metadata table and of the
\* container table, the id "empty" excepted, is listed by a provider of the
\* provider list, and the container table maps "empty" to the synthetic
\* empty instance container.
C14_TablesHoldProvidedIdsAndEmpty ==
    /\ \A id \in (DOMAIN metadata \cup DOMAIN _containers) \ {EmptyId} :
          \E j \in 1..Len(_providers) : Lists(_providers[j], id)
    /\ EmptyId \in DOMAIN _containers
    /\ _containers[EmptyId] = 1

\* The keys of the metadata entries query q selects.
MatchedKeys(q) ==
    IF isIdOnly(q) THEN {q.id} \cap DOMAIN metadata
    ELSE {k \in DOMAIN metadata : Matches(heap, q, metadata[k])}

\* The ids those entries carry.
MatchedIds(q) == {MetaView(heap, metadata[k]).id : k \in MatchedKeys(q)}

WrittenObjects == {signals[i].obj : i \in {j \in 1..Len(signals) : signals[j].kind = "write"}}

\* Container o is one saveAll is to write a file for: its serialization
\* succeeds, its class has a registered mimetype, and it is a dirty
\* InstanceContainer or ContainerStack, or a DefinitionContainer.
Eligible(o) ==
    /\ serialize[o] = "ok"
    /\ MimeTypeOf(heap[o].cls) # NoValue
    /\ \/ /\ BaseTypeOf(heap[o].cls) \in {"InstanceContainer", "ContainerStack"}
          /\ isDirty[o]
       \/ BaseTypeOf(heap[o].cls) = "DefinitionContainer"

\* C16: saveAll writes a file for exactly the containers of the registry
\* whose serialization succeeds, whose variant has a registered mimetype and
\* that are a dirty InstanceContainer, a dirty ContainerStack or a
\* DefinitionContainer; it writes nothing for the others and leaves every
\* other file as it was.
C16_SaveAllWritesDirtyAndDefinitions ==
    [][last'.op = "saveAll"
       => /\ WrittenObjects' = {o \in Registered : Eligible(o)}
          /\ files \subseteq files'
          /\ \A f \in files' \ files :
                \E o \in WrittenObjects' :
                    f.id = heap[o].id /\ f.mime = MimeTypeOf(heap[o].cls)]_vars

\* saveAll calls serialize() of container o and the call fails: o is in both
\* tables, it is a dirty InstanceContainer or ContainerStack or a
\* DefinitionContainer, and its serialize() raises.
FailsToSerialize(o) ==
    /\ o \in Registered
    /\ \E k \in DOMAIN metadata : metadata[k] = getMetaData(o)
    /\ serialize[o] # "ok"
    /\ \/ /\ BaseTypeOf(heap[o].cls) \in {"InstanceContainer", "ContainerStack"}
          /\ isDirty[o]
          /\ heap[o].cls # "_EmptyInstanceContainer"
       \/ BaseTypeOf(heap[o].cls) = "DefinitionContainer"

\* C17: when serialize() of a container fails in saveAll (unsupported or
\* any other error), saveAll does not raise, writes no file for that
\* container, and still writes a file for every other container of the
\* registry that is eligible for saving.
C17_SerializationFailureSkipsOne ==
    [][(last'.op = "saveAll" /\ \E o \in Live(heap) : FailsToSerialize(o))
       => /\ last'.status = "done"
          /\ \A o \in Live(heap) : FailsToSerialize(o) => o \notin WrittenObjects'
          /\ \A o \in Registered : Eligible(o) => o \in WrittenObjects']_vars

\* Instance i writes a file in this step.
WritesFile(i) == saving'[i].written = saving[i].written + 1

\* C18: every file write of saveAll is done by a registry instance that
\* holds the lock file, and never while the other instance is between two
\* writes of its own saveAll.
C18_SaveAllWritesUnderLock ==
    [][\A i \in Instances :
          WritesFile(i)
          => /\ lock_holder = i
             /\ \A j \in Instances \ {i} :
                   ~(saving[j].written > 0 /\ saving[j].todo # <<>>)]_vars

\* Name x collides with an existing container: it is the id of one,
\* compared without case, or the display name of one.
Collides(x) ==
    \E o \in Registered \ {1} :
        Lower(heap[o].id) = Lower(x) \/ heap[o].name = x

\* The ids of the existing containers.
ExistingIds == {heap[o].id : o \in Registered \ {1}}

\* C19: uniqueName(original) returns a name that is the id of no existing
\* container, compared without case, and the display name of none; with no
\* containers uniqueName("Profile") is "Profile", and with the containers
\* "Profile" and "Profile #2" it is "Profile #3".
C19_UniqueNameCollidesWithNothing ==
    [][last'.op = "uniqueName"
       => /\ last'.status = "done"
          /\ ~Collides(last'.retName)
          /\ (ExistingIds = {} /\ last'.newName = "Profile")
                => last'.retName = "Profile"
          /\ (/\ ExistingIds = {"Profile", "Profile #2"}
              /\ \A o \in Registered \ {1} : heap[o].name = heap[o].id
              /\ last'.newName = "Profile")
                => last'.retName = "Profile #3"]_vars

\* t with a trailing " #<N>" removed.
WithoutNumber(t) ==
    IF \E k \in 1..(Len(t) - 2) :
          /\ t[k] = " " /\ t[k + 1] = "#"
          /\ \A i \in (k + 2)..Len(t) : IsDigit(t[i])
    THEN SubSeq(t, 1, (CHOOSE k \in 1..(Len(t) - 2) :
                          /\ t[k] = " " /\ t[k + 1] = "#"
                          /\ \A i \in (k + 2)..Len(t) : IsDigit(t[i])) - 1)
    ELSE t

\* The smallest k >= 2 such that "b #k" collides with nothing.
FirstFree(b) ==
    CHOOSE k \in 2..(MaxTries + 2) :
        /\ ~Collides(Str(Numbered(b, k)))
        /\ \A j \in 2..(k - 1) : Collides(Str(Numbered(b, j)))

\* The name the rule of C20 gives for an argument of uniqueName.
NameByRule(original) ==
    LET t == strip(Chars(original))
        b == WithoutNumber(t)
    IN IF b # <<>> /\ ~Collides(Str(t)) THEN Str(t)
       ELSE IF b # <<>> THEN Str(Numbered(b, FirstFree(b)))
       ELSE Str(Numbered(<<"Profile">>, FirstFree(<<"Profile">>)))

\* C20: uniqueName(original) is, with t the original without surrounding
\* whitespace and b the t without a trailing " #<N>" ("Profile" when that
\* is empty): t, if b was not empty and t collides with no id (compared
\* without case) and no display name; otherwise "b #k" for the smallest
\* k >= 2 such that "b #k" collides with no id and no name.
C20_UniqueNameRule ==
    [][last'.op = "uniqueName"
       => /\ last'.status = "done"
          /\ last'.retName = NameByRule(last'.newName)]_vars

C22_IdQueryBypassesCache ==
    [][last'.op = "findContainersMetadata" /\ isIdOnly(last'.query)
       => /\ last'.retMeta = IF last'.query.id \in DOMAIN metadata
                             THEN <<metadata[last'.query.id]>> ELSE <<>>
          /\ _query_cache' = _query_cache
          /\ \A i \in 1..Len(_query_cache') : ~isIdOnly(_query_cache'[i].query)]_vars

\* A query by id found its entry while the cache held two entries.
C22_Witness ==
    /\ last.op = "findContainersMetadata"
    /\ isIdOnly(last.query)
    /\ Len(last.retMeta) = 1
    /\ Len(_query_cache) = 2

\* Instance i calls provider.loadContainer in this step.
CallsLoadContainer(i) == loading'[i].loaded > loading[i].loaded

\* The tables of the registry.
Tables == <<metadata, _containers, heap>>

\* C23: load() calls provider.loadContainer only while its instance holds
\* the cache lock; two instances are never in the loop of load() at the
\* same time; an instance that is not in load() does not hold the lock,
\* whether its load() returned or a provider raised; and a load() that ends
\* with the lock timeout has called no provider and written no table entry.
C23_LoadUnderCacheLock ==
    /\ [](\A i \in Instances :
            /\ loading[i].pc = "idle" => cache_lock_holder # i
            /\ \A j \in Instances \ {i} :
                   ~(loading[i].pc = "loading" /\ loading[j].pc = "loading"))
    /\ [][\A i \in Instances :
            /\ CallsLoadContainer(i) => cache_lock_holder = i
            /\ loading'[i].ended = "LockTimeout" /\ loading[i] # loading'[i]
               => /\ Tables' = Tables
                  /\ loading'[i].loaded = 0]_vars

\* A provider raised in a load() after one container was stored, the other
\* instance's load() ended with the lock timeout meanwhile, and nobody holds
\* the lock.
C23_Witness ==
    /\ loading[1].ended = "raised"
    /\ loading[1].loaded = 2
    /\ loading[2].ended = "LockTimeout"
    /\ cache_lock_holder = 0

\* C24: every entry of the query cache holds the result that executing its
\* query on the current metadata table gives.
C24_CacheCoherent ==
    \A i \in 1..Len(_query_cache) :
        _query_cache[i].result = execute(heap, metadata, _query_cache[i].query)

\* The query cache has no entry.
C24_CacheEmpty == _query_cache = <<>>

\* C25: renameContainer and addContainer leave the container table's entry
\* of every container other than the one renamed or added as it was, and
\* afterwards every key of the table maps to a container whose id is the key.
C25_NoSilentLoss ==
    [][last'.op \in {"renameContainer", "addContainer"}
       => /\ \A k \in DOMAIN _containers :
                _containers[k] # last'.obj
                => k \in DOMAIN _containers' /\ _containers'[k] = _containers[k]
          /\ \A k \in DOMAIN _containers' : heap'[_containers'[k]].id = k]_vars

====
